---- MODULE Spec2Model ----
(***************************************************************************)
(* Session / credential lifecycle of alx-backend-user-data.                *)
(*                                                                         *)
(*  - 0x03-user_authentication_service: the Auth class (auth.py) on top of *)
(*    the DB class (db.py), and the Flask routes of app.py.                *)
(*  - 0x02-Session_authentication: the in-memory SessionAuth /             *)
(*    SessionExpAuth session managers, and Auth.require_auth.              *)
(*  - 0x01-Basic_authentication: BasicAuth.                                *)
(*                                                                         *)
(* Python values: a str is a TLA+ string, None is the marker string None   *)
(* below (no input set contains that text as a real string) or, where a    *)
(* User object is expected, the record NoUser.                             *)
(***************************************************************************)
EXTENDS Integers, Sequences, FiniteSets, TLC

VARIABLES
    users,                  \* 0x03 db.py: rows of the users table, users[i].id = i
    uuid_count,             \* number of uuid4() calls made so far (both services)
    last,                   \* the last call made and what it returned
    current_password,       \* observer: the password last set for each user id
    session_duration,       \* 0x02 SessionExpAuth.session_duration
    user_id_by_session_id,  \* 0x02 SessionAuth.user_id_by_session_id (class dict)
    now,                    \* 0x02 the wall clock read by datetime.now()
    DATA,                   \* 0x01 the stored objects of each model class
    calls                   \* 0x03 the register_user call each worker is in

vars == <<users, uuid_count, last, current_password,
          session_duration, user_id_by_session_id, now, DATA, calls>>

authVars == <<users, current_password>>
expVars == <<session_duration, user_id_by_session_id, now>>
basicVars == <<DATA>>
raceVars == <<calls>>

----------------------------------------------------------------------------
(* Bounds of the model and input sets                                      *)

MaxUuid == 2
MaxTime == 5

\* the e-mail addresses clients use, and the salts bcrypt.gensalt() draws
Emails == {"a@b.com", "c@d.com"}
Salts == {1}

None == "None"
\* Python None where the value is otherwise a User object
NoUser == [none |-> TRUE]
NoResultFound == "NoResultFound"
InvalidRequestError == "InvalidRequestError"
ValueError == "ValueError"
IntegrityError == "IntegrityError"
AttributeError == "AttributeError"

Min(S) == CHOOSE m \in S : \A n \in S : m <= n

\* an identifier generated once and returned by every call
_generate_uuid_once(n) == "uuid-" \o ToString(1)

\* str(uuid4()): the n-th identifier generated; distinct calls give distinct
\* identifiers.
_generate_uuid(n) == "uuid-" \o ToString(n)

Uuids == {_generate_uuid(n) : n \in 1..MaxUuid}

----------------------------------------------------------------------------
(* bcrypt                                                                  *)

\* A bytes value is the sequence of its runs: Bytes(b, n) is the byte b
\* repeated n times, and \o concatenates values whose adjoining bytes differ.
Bytes(b, n) == <<[byte |-> b, count |-> n]>>

\* the first n bytes of a bytes value
RECURSIVE Prefix(_, _)
Prefix(s, n) ==
    IF n <= 0 \/ s = <<>> THEN <<>>
    ELSE IF Head(s).count >= n THEN <<[byte |-> Head(s).byte, count |-> n]>>
    ELSE <<Head(s)>> \o Prefix(Tail(s), n - Head(s).count)

\* bcrypt reads at most the first 72 bytes of the password.
BcryptMaxLen == 72

\* Passwords offered by clients: a short one and two long ones that differ
\* only after byte 72.
Passwords ==
    {Bytes(98, 1),
     Bytes(97, BcryptMaxLen) \o Bytes(98, 1),
     Bytes(97, BcryptMaxLen) \o Bytes(99, 1)}

\* bcrypt.hashpw(password, salt): the hash embeds the salt; the digest is a
\* one-way function of the salt and of the bytes bcrypt reads.  (bcrypt
\* releases before 5.0 drop the bytes after the 72nd silently, as modelled;
\* 5.0 raises ValueError on a longer password instead.)
hashpw(password, salt) ==
    [salt |-> salt, digest |-> Prefix(password, BcryptMaxLen)]

\* bcrypt.checkpw(password, hashed): rehash with the embedded salt, compare.
checkpw(password, hashed) == hashpw(password, hashed.salt) = hashed

\* auth.py _hash_password: bcrypt.hashpw(password.encode(), bcrypt.gensalt());
\* salt is the value gensalt() drew.
_hash_password(password, salt) == hashpw(password, salt)

----------------------------------------------------------------------------
(* 0x03 db.py : DB                                                         *)

\* User.__table__.columns.keys()
Columns == {"id", "email", "hashed_password", "session_id", "reset_token"}

\* User(email=..., hashed_password=...) once committed: autoincrement id,
\* nullable session_id and reset_token left NULL.
User(id, email, hashed_password) ==
    [id |-> id, email |-> email, hashed_password |-> hashed_password,
     session_id |-> None, reset_token |-> None]

\* an email column without unique constraint
email_is_unconstrained(us, email) == TRUE

\* the unique constraint of the email column: no row has this email yet
email_is_unique(us, email) == \A i \in 1..Len(us) : us[i].email # email

\* DB.add_user: [exc, users, ret], the new table and the new row; commit()
\* raises IntegrityError when the insert breaks the constraint.
add_user(us, email, hashed_password) ==
    LET user == User(Len(us) + 1, email, hashed_password)
    IN  IF ~email_is_unique(us, email)
        THEN [exc |-> IntegrityError, users |-> us, ret |-> NoUser]
        ELSE [exc |-> None, users |-> Append(us, user), ret |-> user]

\* query(User).filter_by(**kwargs): col = value, and col IS NULL when the
\* value is None.
filter_by(us, kwargs) ==
    {i \in 1..Len(us) : \A key \in DOMAIN kwargs : us[i][key] = kwargs[key]}

\* DB.find_user_by(**kwargs): [exc |-> name] when it raises, else
\* [exc |-> None, ret |-> row]; first() is the matching row of lowest id.
find_user_by(us, kwargs) ==
    IF DOMAIN kwargs = {} THEN [exc |-> InvalidRequestError]
    ELSE IF \E key \in DOMAIN kwargs : key \notin Columns
         THEN [exc |-> InvalidRequestError]
    ELSE IF filter_by(us, kwargs) = {} THEN [exc |-> NoResultFound]
    ELSE [exc |-> None, ret |-> us[Min(filter_by(us, kwargs))]]

\* update_user that sets each recognized field as it meets it and raises
\* at an unrecognized one
update_user_partial(us, user_id, kwargs) ==
    LET found == find_user_by(us, [id |-> user_id])
    IN  IF found.exc # None THEN [exc |-> found.exc, users |-> us]
        ELSE [exc |-> IF \E key \in DOMAIN kwargs : key \notin Columns
                      THEN ValueError ELSE None,
              users |-> [us EXCEPT ![found.ret.id] =
                            [col \in Columns |->
                                IF col \in DOMAIN kwargs THEN kwargs[col]
                                                         ELSE @[col]]]]

\* DB.update_user(user_id, **kwargs): [exc, users].
update_user(us, user_id, kwargs) ==
    LET found == find_user_by(us, [id |-> user_id])
    IN  IF found.exc # None THEN [exc |-> found.exc, users |-> us]
        ELSE IF \E key \in DOMAIN kwargs : key \notin Columns
             THEN [exc |-> ValueError, users |-> us]
        ELSE [exc |-> None,
              users |-> [us EXCEPT ![found.ret.id] =
                            [col \in Columns |->
                                IF col \in DOMAIN kwargs THEN kwargs[col]
                                                         ELSE @[col]]]]

----------------------------------------------------------------------------
(* 0x03 auth.py : Auth.  Each method is [exc, ret, users]: the exception   *)
(* it raises (None when it returns), its return value, the table after it. *)

\* register_user that adds the user without looking for the email first
register_user_unchecked(us, email, password, salt) ==
    LET added == add_user(us, email, _hash_password(password, salt))
    IN  [exc |-> added.exc, ret |-> added.ret, users |-> added.users]

\* Auth.register_user(email, password); salt is what gensalt() drew.
register_user(us, email, password, salt) ==
    LET found == find_user_by(us, [email |-> email])
    IN  IF found.exc = NoResultFound
        THEN LET added == add_user(us, email, _hash_password(password, salt))
             IN  [exc |-> added.exc, ret |-> added.ret, users |-> added.users]
        ELSE [exc |-> ValueError, ret |-> NoUser, users |-> us]

\* Auth.valid_login(email, password)
valid_login(us, email, password) ==
    LET found == find_user_by(us, [email |-> email])
    IN  IF found.exc = NoResultFound THEN FALSE
        ELSE IF checkpw(password, found.ret.hashed_password) THEN TRUE
        ELSE FALSE

\* create_session that stores the new id only for a user without a session
create_session_keeps_old(us, email, uuid) ==
    LET found == find_user_by(us, [email |-> email])
    IN  IF found.exc = NoResultFound
        THEN [exc |-> None, ret |-> None, users |-> us]
        ELSE IF found.ret.session_id # None
             THEN [exc |-> None, ret |-> uuid, users |-> us]
        ELSE [exc |-> None, ret |-> uuid,
              users |-> update_user(us, found.ret.id,
                                    [session_id |-> uuid]).users]

\* Auth.create_session(email); uuid is what _generate_uuid() would return.
create_session(us, email, uuid) ==
    LET found == find_user_by(us, [email |-> email])
    IN  IF found.exc = NoResultFound
        THEN [exc |-> None, ret |-> None, users |-> us]
        ELSE [exc |-> None, ret |-> uuid,
              users |-> update_user(us, found.ret.id,
                                    [session_id |-> uuid]).users]

\* get_user_from_session_id that looks up None like any other value
get_user_from_session_id_any_value(us, session_id) ==
    LET found == find_user_by(us, [session_id |-> session_id])
    IN  IF found.exc = NoResultFound THEN NoUser ELSE found.ret

\* Auth.get_user_from_session_id(session_id): the row, or None.
get_user_from_session_id(us, session_id) ==
    IF session_id = None THEN NoUser
    ELSE LET found == find_user_by(us, [session_id |-> session_id])
         IN  IF found.exc = NoResultFound THEN NoUser ELSE found.ret

\* destroy_session that finds the user and leaves its session_id in place
destroy_session_noop(us, user_id) ==
    [exc |-> None, ret |-> None, users |-> us]

\* Auth.destroy_session(user_id)
destroy_session(us, user_id) ==
    LET found == find_user_by(us, [id |-> user_id])
    IN  IF found.exc = NoResultFound
        THEN [exc |-> None, ret |-> None, users |-> us]
        ELSE [exc |-> None, ret |-> None,
              users |-> update_user(us, found.ret.id,
                                    [session_id |-> None]).users]

\* get_reset_password_token that does not overwrite an outstanding token
get_reset_password_token_keeps_old(us, email, uuid) ==
    LET found == find_user_by(us, [email |-> email])
    IN  IF found.exc = NoResultFound
        THEN [exc |-> ValueError, ret |-> None, users |-> us]
        ELSE IF found.ret.reset_token # None
             THEN [exc |-> None, ret |-> uuid, users |-> us]
        ELSE [exc |-> None, ret |-> uuid,
              users |-> update_user(us, found.ret.id,
                                    [reset_token |-> uuid]).users]

\* Auth.get_reset_password_token(email)
get_reset_password_token(us, email, uuid) ==
    LET found == find_user_by(us, [email |-> email])
    IN  IF found.exc = NoResultFound
        THEN [exc |-> ValueError, ret |-> None, users |-> us]
        ELSE [exc |-> None, ret |-> uuid,
              users |-> update_user(us, found.ret.id,
                                    [reset_token |-> uuid]).users]

\* update_password that sets the password and leaves reset_token in place
update_password_keeps_token(us, reset_token, password, salt) ==
    LET found == find_user_by(us, [reset_token |-> reset_token])
    IN  IF found.exc = NoResultFound
        THEN [exc |-> ValueError, ret |-> None, users |-> us]
        ELSE [exc |-> None, ret |-> None,
              users |-> update_user(us, found.ret.id,
                            [hashed_password |->
                                 _hash_password(password, salt)]).users]

\* update_password that also ends the session of the user
update_password_ends_session(us, reset_token, password, salt) ==
    LET found == find_user_by(us, [reset_token |-> reset_token])
    IN  IF found.exc = NoResultFound
        THEN [exc |-> ValueError, ret |-> None, users |-> us]
        ELSE [exc |-> None, ret |-> None,
              users |-> update_user(us, found.ret.id,
                            [hashed_password |-> _hash_password(password, salt),
                             reset_token |-> None,
                             session_id |-> None]).users]

\* Auth.update_password(reset_token, password)
update_password(us, reset_token, password, salt) ==
    LET found == find_user_by(us, [reset_token |-> reset_token])
    IN  IF found.exc = NoResultFound
        THEN [exc |-> ValueError, ret |-> None, users |-> us]
        ELSE [exc |-> None, ret |-> None,
              users |-> update_user(us, found.ret.id,
                            [hashed_password |-> _hash_password(password, salt),
                             reset_token |-> None]).users]

----------------------------------------------------------------------------
(* 0x03 app.py : the Flask routes.  A form is a record holding the fields  *)
(* the client sent; form[k] with k missing raises KeyError.  Each route is *)
(* [status, users, cookie] : the HTTP status, the table after the request  *)
(* and the session cookie the response sets (None when it sets none).      *)

\* POST /users
register(us, form, salt) ==
    IF ~({"email", "password"} \subseteq DOMAIN form)
    THEN [status |-> 400, users |-> us, cookie |-> None]
    ELSE LET r == register_user(us, form.email, form.password, salt)
         IN  IF r.exc = ValueError
             THEN [status |-> 400, users |-> us, cookie |-> None]
             ELSE IF r.exc # None
                  THEN [status |-> 500, users |-> r.users, cookie |-> None]
             ELSE [status |-> 200, users |-> r.users, cookie |-> None]

\* POST /sessions
login(us, form, uuid) ==
    IF ~({"email", "password"} \subseteq DOMAIN form)
    THEN [status |-> 400, users |-> us, cookie |-> None]
    ELSE IF ~valid_login(us, form.email, form.password)
         THEN [status |-> 401, users |-> us, cookie |-> None]
         ELSE LET r == create_session(us, form.email, uuid)
              IN  [status |-> 200, users |-> r.users, cookie |-> r.ret]

\* DELETE /sessions ; 302 is the redirect to "/"
logout(us, session_id) ==
    IF session_id = None THEN [status |-> 403, users |-> us, cookie |-> None]
    ELSE LET user == get_user_from_session_id(us, session_id)
         IN  IF user = NoUser
             THEN [status |-> 403, users |-> us, cookie |-> None]
             ELSE [status |-> 302, users |-> destroy_session(us, user.id).users,
                   cookie |-> None]

\* GET /profile ; body is the email of the JSON answer
profile(us, session_id) ==
    IF session_id = None THEN [status |-> 403, body |-> None]
    ELSE LET user == get_user_from_session_id(us, session_id)
         IN  IF user = NoUser THEN [status |-> 403, body |-> None]
             ELSE [status |-> 200, body |-> user.email]

\* POST /reset_password ; body is the reset_token of the JSON answer
reset_password(us, form, uuid) ==
    IF "email" \notin DOMAIN form
    THEN [status |-> 403, users |-> us, body |-> None]
    ELSE LET r == get_reset_password_token(us, form.email, uuid)
         IN  IF r.exc = ValueError
             THEN [status |-> 403, users |-> us, body |-> None]
             ELSE [status |-> 200, users |-> r.users, body |-> r.ret]

\* PUT /reset_password that refuses a token held by a user other than the
\* one of the email field
put_reset_password_checks_email(us, form, salt) ==
    IF ~({"email", "reset_token", "new_password"} \subseteq DOMAIN form)
    THEN [status |-> 400, users |-> us, body |-> None]
    ELSE IF filter_by(us, [email |-> form.email,
                           reset_token |-> form.reset_token]) = {}
         THEN [status |-> 403, users |-> us, body |-> None]
    ELSE LET r == update_password(us, form.reset_token, form.new_password, salt)
         IN  IF r.exc = ValueError
             THEN [status |-> 403, users |-> us, body |-> None]
             ELSE [status |-> 200, users |-> r.users, body |-> form.email]

\* PUT /reset_password ; body is the email of the JSON answer
put_reset_password(us, form, salt) ==
    IF ~({"email", "reset_token", "new_password"} \subseteq DOMAIN form)
    THEN [status |-> 400, users |-> us, body |-> None]
    ELSE LET r == update_password(us, form.reset_token, form.new_password, salt)
         IN  IF r.exc = ValueError
             THEN [status |-> 403, users |-> us, body |-> None]
             ELSE [status |-> 200, users |-> r.users, body |-> form.email]

----------------------------------------------------------------------------
(* Inputs of the Auth service                                              *)

\* session ids and reset tokens a caller may present
Tokens == {None, ""} \cup Uuids

UserIds == 1..(Cardinality(Emails) + 1)

\* the identifiers uuid4() has produced so far, and the next one
Generated == {_generate_uuid(n) : n \in 1..uuid_count}

NextUuid == _generate_uuid(uuid_count + 1)

\* the workers (request threads or processes) that run Auth.register_user,
\* and a worker that is in no call
Workers == {1, 2}

Idle == [pc |-> "idle"]

NoCalls == [w \in Workers |-> Idle]

\* find_user_by(...) returns a row / the id of that row
Exists(us, kwargs) == find_user_by(us, kwargs).exc = None

IdOf(us, kwargs) == find_user_by(us, kwargs).ret.id

----------------------------------------------------------------------------
(* Actions of the Auth service: direct calls of the Auth methods.  last is *)
(* the call just made, its outcome, and what an observer of the call saw   *)
(* of the row it acted on.                                                 *)

RegisterUser(email, password) ==
    \E salt \in Salts :
        LET r == register_user(users, email, password, salt)
        IN  /\ users' = r.users
            /\ current_password' = IF r.exc = None
                                   THEN Append(current_password, password)
                                   ELSE current_password
            /\ last' = [op |-> "register_user", email |-> email, exc |-> r.exc]
            /\ UNCHANGED <<uuid_count, expVars, basicVars, raceVars>>

ValidLogin(email, password) ==
    /\ last' = [op |-> "valid_login", email |-> email, password |-> password,
                ret |-> valid_login(users, email, password)]
    /\ UNCHANGED <<authVars, uuid_count, expVars, basicVars, raceVars>>

CreateSession(email) ==
    LET r == create_session(users, email, NextUuid)
    IN  /\ r.ret # None => uuid_count < MaxUuid
        /\ users' = r.users
        /\ uuid_count' = IF r.ret # None THEN uuid_count + 1 ELSE uuid_count
        /\ last' = [op |-> "create_session", email |-> email, ret |-> r.ret,
                    replaced |-> IF r.ret # None
                                 THEN find_user_by(users, [email |-> email])
                                          .ret.session_id
                                 ELSE None]
        /\ UNCHANGED <<current_password, expVars, basicVars, raceVars>>

GetUserFromSessionId(session_id) ==
    /\ last' = [op |-> "get_user_from_session_id", session_id |-> session_id,
                ret |-> LET user == get_user_from_session_id(users, session_id)
                        IN  IF user = NoUser THEN None ELSE user.email]
    /\ UNCHANGED <<authVars, uuid_count, expVars, basicVars, raceVars>>

DestroySession(user_id) ==
    LET r == destroy_session(users, user_id)
    IN  /\ users' = r.users
        /\ last' = [op |-> "destroy_session", user_id |-> user_id,
                    cleared |-> IF Exists(users, [id |-> user_id])
                                THEN users[user_id].session_id ELSE None]
        /\ UNCHANGED <<current_password, uuid_count, expVars, basicVars, raceVars>>

GetResetPasswordToken(email) ==
    LET r == get_reset_password_token(users, email, NextUuid)
    IN  /\ r.exc = None => uuid_count < MaxUuid
        /\ users' = r.users
        /\ uuid_count' = IF r.exc = None THEN uuid_count + 1 ELSE uuid_count
        /\ last' = [op |-> "get_reset_password_token", email |-> email,
                    exc |-> r.exc, ret |-> r.ret,
                    replaced |-> IF r.exc = None
                                 THEN find_user_by(users, [email |-> email])
                                          .ret.reset_token
                                 ELSE None]
        /\ UNCHANGED <<current_password, expVars, basicVars, raceVars>>

UpdatePassword(reset_token, password) ==
    \E salt \in Salts :
        LET r == update_password(users, reset_token, password, salt)
        IN  /\ users' = r.users
            /\ current_password' =
                   IF r.exc = None
                   THEN [current_password EXCEPT
                            ![IdOf(users, [reset_token |-> reset_token])] =
                                password]
                   ELSE current_password
            /\ last' = [op |-> "update_password", reset_token |-> reset_token,
                        exc |-> r.exc,
                        user_id |-> IF r.exc = None
                                    THEN IdOf(users,
                                              [reset_token |-> reset_token])
                                    ELSE 0]
            /\ UNCHANGED <<uuid_count, expVars, basicVars, raceVars>>

----------------------------------------------------------------------------
(* The Auth service: AUTH = Auth() on a table that DB.__init__ has just    *)
(* dropped and re-created.                                                 *)

NoCall == [op |-> "none"]

InitAuth ==
    /\ users = <<>>
    /\ uuid_count = 0
    /\ last = NoCall
    /\ current_password = <<>>
    /\ session_duration = 0
    /\ user_id_by_session_id = <<>>
    /\ now = 0
    /\ DATA = <<>>
    /\ calls = NoCalls

NextAuth ==
    \/ \E email \in Emails, password \in Passwords : RegisterUser(email, password)
    \/ \E email \in Emails, password \in Passwords : ValidLogin(email, password)
    \/ \E email \in Emails : CreateSession(email)
    \/ \E session_id \in Tokens : GetUserFromSessionId(session_id)
    \/ \E user_id \in UserIds : DestroySession(user_id)
    \/ \E email \in Emails : GetResetPasswordToken(email)
    \/ \E reset_token \in Tokens, password \in Passwords :
            UpdatePassword(reset_token, password)

SpecAuth == InitAuth /\ [][NextAuth]_vars

----------------------------------------------------------------------------
(* The Auth service with clients that use two passwords within bcrypt's    *)
(* limit: every method of Auth, on the same table.                         *)

\* a short password and one of BcryptMaxLen bytes
SessionPasswords == {Bytes(98, 1), Bytes(97, BcryptMaxLen)}

InitSessions == InitAuth

NextSessions ==
    \/ \E email \in Emails, password \in SessionPasswords :
            RegisterUser(email, password)
    \/ \E email \in Emails, password \in SessionPasswords :
            ValidLogin(email, password)
    \/ \E email \in Emails : CreateSession(email)
    \/ \E session_id \in Tokens : GetUserFromSessionId(session_id)
    \/ \E user_id \in UserIds : DestroySession(user_id)
    \/ \E email \in Emails : GetResetPasswordToken(email)
    \/ \E reset_token \in Tokens, password \in SessionPasswords :
            UpdatePassword(reset_token, password)

SpecSessions == InitSessions /\ [][NextSessions]_vars

----------------------------------------------------------------------------
(* The Flask app: one request at a time on the routes of app.py.  last is  *)
(* the request just answered: its route, what it sent and the answer.      *)

\* request.form of POST /users and POST /sessions: both fields, or the
\* email alone
CredentialForms ==
    {[email |-> email, password |-> password] :
         email \in Emails, password \in Passwords}
        \cup {[email |-> email] : email \in Emails}

\* request.form of POST /reset_password
EmailForms == {[email |-> email] : email \in Emails} \cup {[other |-> ""]}

\* request.form of PUT /reset_password
ResetForms ==
    {[email |-> email, reset_token |-> reset_token,
      new_password |-> new_password] :
         email \in Emails, reset_token \in Tokens \ {None},
         new_password \in Passwords}
        \cup {[email |-> email, reset_token |-> reset_token] :
                  email \in Emails, reset_token \in Tokens \ {None}}

\* the password a form carries, the empty bytes when it carries none
PasswordOf(form) ==
    IF "password" \in DOMAIN form THEN form.password ELSE <<>>

PostUsers(form) ==
    \E salt \in Salts :
        LET r == register(users, form, salt)
        IN  /\ users' = r.users
            /\ current_password' = IF r.status = 200
                                   THEN Append(current_password, form.password)
                                   ELSE current_password
            /\ last' = [op |-> "POST /users", email |-> form.email,
                        status |-> r.status]
            /\ UNCHANGED <<uuid_count, expVars, basicVars, raceVars>>

PostSessions(form) ==
    LET r == login(users, form, NextUuid)
    IN  /\ r.status = 200 => uuid_count < MaxUuid
        /\ users' = r.users
        /\ uuid_count' = IF r.status = 200 THEN uuid_count + 1 ELSE uuid_count
        /\ last' = [op |-> "POST /sessions", email |-> form.email,
                    password |-> PasswordOf(form), status |-> r.status,
                    cookie |-> r.cookie]
        /\ UNCHANGED <<current_password, expVars, basicVars, raceVars>>

DeleteSessions(session_id) ==
    LET r == logout(users, session_id)
    IN  /\ users' = r.users
        /\ last' = [op |-> "DELETE /sessions", session_id |-> session_id,
                    status |-> r.status]
        /\ UNCHANGED <<current_password, uuid_count, expVars, basicVars, raceVars>>

GetProfile(session_id) ==
    LET r == profile(users, session_id)
    IN  /\ last' = [op |-> "GET /profile", session_id |-> session_id,
                    status |-> r.status, body |-> r.body]
        /\ UNCHANGED <<authVars, uuid_count, expVars, basicVars, raceVars>>

PostResetPassword(form) ==
    LET r == reset_password(users, form, NextUuid)
    IN  /\ r.status = 200 => uuid_count < MaxUuid
        /\ users' = r.users
        /\ uuid_count' = IF r.status = 200 THEN uuid_count + 1 ELSE uuid_count
        /\ last' = [op |-> "POST /reset_password", status |-> r.status,
                    body |-> r.body]
        /\ UNCHANGED <<current_password, expVars, basicVars, raceVars>>

PutResetPassword(form) ==
    \E salt \in Salts :
        LET r == put_reset_password(users, form, salt)
        IN  /\ users' = r.users
            /\ current_password' =
                   IF r.status = 200
                   THEN [current_password EXCEPT
                            ![IdOf(users, [reset_token |-> form.reset_token])] =
                                form.new_password]
                   ELSE current_password
            /\ last' = [op |-> "PUT /reset_password", email |-> form.email,
                        reset_token |-> form.reset_token, status |-> r.status,
                        body |-> r.body,
                        user_id |-> IF r.status = 200
                                    THEN IdOf(users, [reset_token |->
                                                          form.reset_token])
                                    ELSE 0]
            /\ UNCHANGED <<uuid_count, expVars, basicVars, raceVars>>

InitApp == InitAuth

NextApp ==
    \/ \E form \in CredentialForms : PostUsers(form)
    \/ \E form \in CredentialForms : PostSessions(form)
    \/ \E session_id \in Tokens : DeleteSessions(session_id)
    \/ \E session_id \in Tokens : GetProfile(session_id)
    \/ \E form \in EmailForms : PostResetPassword(form)
    \/ \E form \in ResetForms : PutResetPassword(form)

SpecApp == InitApp /\ [][NextApp]_vars

----------------------------------------------------------------------------
(* The record store: direct calls of DB.add_user and DB.update_user, with  *)
(* the values Auth passes and with field names the table does not have.    *)

\* the hashed_password values callers store
Hashes == {_hash_password(password, salt) :
               password \in Passwords, salt \in Salts}

\* **kwargs of update_user: the updates Auth makes, and two that name a
\* field that is not a column, one of them next to a column
UpdateArgs ==
    {[session_id |-> t] : t \in {None} \cup Uuids}
        \cup {[reset_token |-> t] : t \in {None} \cup Uuids}
        \cup {[hashed_password |-> h, reset_token |-> None] : h \in Hashes}
        \cup {[hashed_password |-> h, password |-> None] : h \in Hashes}
        \cup {[token |-> None]}

AddUser(email, hashed_password) ==
    LET r == add_user(users, email, hashed_password)
    IN  /\ users' = r.users
        /\ last' = [op |-> "add_user", email |-> email, exc |-> r.exc]
        /\ UNCHANGED <<current_password, uuid_count, expVars, basicVars, raceVars>>

UpdateUser(user_id, kwargs) ==
    LET r == update_user(users, user_id, kwargs)
    IN  /\ users' = r.users
        /\ last' = [op |-> "update_user", user_id |-> user_id,
                    keys |-> DOMAIN kwargs, exc |-> r.exc]
        /\ UNCHANGED <<current_password, uuid_count, expVars, basicVars, raceVars>>

InitDB == InitAuth

NextDB ==
    \/ \E email \in Emails, hashed_password \in Hashes :
            AddUser(email, hashed_password)
    \/ \E user_id \in UserIds, kwargs \in UpdateArgs :
            UpdateUser(user_id, kwargs)

SpecDB == InitDB /\ [][NextDB]_vars

----------------------------------------------------------------------------
(* Concurrent registration: every worker runs Auth.register_user on the    *)
(* same users table.  A call is two steps, the find_user_by of its try     *)
(* block and the add_user of its except block, and steps of other workers  *)
(* may fall between them; each query and each commit is atomic.  calls[w]  *)
(* is where worker w is: idle, about to add_user, or done with the         *)
(* exception the call raised (None when it returned the user).             *)

\* try: self._db.find_user_by(email=email), and the raise ValueError that
\* follows when it returns
RegisterUserFind(w, email, password) ==
    /\ calls[w] = Idle
    /\ calls' = [calls EXCEPT ![w] =
                    IF find_user_by(users, [email |-> email]).exc = NoResultFound
                    THEN [pc |-> "add_user", email |-> email,
                          password |-> password]
                    ELSE [pc |-> "done", email |-> email, exc |-> ValueError]]
    /\ UNCHANGED <<authVars, uuid_count, last, expVars, basicVars>>

\* except NoResultFound: return self._db.add_user(email, hashed_password)
RegisterUserAdd(w) ==
    /\ calls[w].pc = "add_user"
    /\ \E salt \in Salts :
          LET added == add_user(users, calls[w].email,
                                _hash_password(calls[w].password, salt))
          IN  /\ users' = added.users
              /\ current_password' =
                     IF added.exc = None
                     THEN Append(current_password, calls[w].password)
                     ELSE current_password
              /\ calls' = [calls EXCEPT ![w] =
                              [pc |-> "done", email |-> calls[w].email,
                               exc |-> added.exc]]
    /\ UNCHANGED <<uuid_count, last, expVars, basicVars>>

\* the call is over and the worker takes its next request
RegisterUserReturn(w) ==
    /\ calls[w].pc = "done"
    /\ calls' = [calls EXCEPT ![w] = Idle]
    /\ UNCHANGED <<authVars, uuid_count, last, expVars, basicVars>>

InitRace == InitAuth

NextRace ==
    \/ \E w \in Workers, email \in Emails, password \in Passwords :
            RegisterUserFind(w, email, password)
    \/ \E w \in Workers : RegisterUserAdd(w)
    \/ \E w \in Workers : RegisterUserReturn(w)

SpecRace == InitRace /\ [][NextRace]_vars

----------------------------------------------------------------------------
(* 0x02 api/v1/auth : SessionAuth and SessionExpAuth.  The session map is  *)
(* a function from session id to its value; a method that may write it is *)
(* [exc, ret, map] : the exception raised (None when it returns), the      *)
(* return value and the map after the call.                                *)

\* Python None where the value is otherwise a request object
NoRequest == [none |-> TRUE]

\* the decimal literals of the model's SESSION_DURATION values
IntLiterals == ("0" :> 0) @@ ("-1" :> -1) @@ ("1" :> 1) @@ ("2" :> 2)

\* int(x): TypeError on None, ValueError on text that is not a number
int(x) ==
    IF x = None THEN [exc |-> "TypeError", ret |-> 0]
    ELSE IF x \in DOMAIN IntLiterals THEN [exc |-> None, ret |-> IntLiterals[x]]
    ELSE [exc |-> ValueError, ret |-> 0]

\* SessionExpAuth.__init__ with getenv("SESSION_DURATION") = env (None when
\* the variable is not set): the session_duration it leaves.
SessionExpAuthInit(env) ==
    IF int(env).exc = None THEN int(env).ret ELSE 0

\* dict.get(key)
Get(map, key, default) == IF key \in DOMAIN map THEN map[key] ELSE default

\* dict[key] = value
Put(map, key, value) ==
    [k \in DOMAIN map \cup {key} |-> IF k = key THEN value ELSE map[k]]

\* dict.pop(key)
Pop(map, key) == [k \in DOMAIN map \ {key} |-> map[k]]

\* `not x` for a str-or-None value
Not(x) == x = None \/ x = ""

\* isinstance(x, str): every value of the model is a str or None
IsStr(x) == x # None

\* SessionAuth.create_session(user_id)
SessionAuth_create_session(map, user_id, uuid) ==
    IF Not(user_id) \/ ~IsStr(user_id)
    THEN [ret |-> None, map |-> map]
    ELSE [ret |-> uuid, map |-> Put(map, uuid, user_id)]

\* SessionExpAuth.create_session(user_id) at time clock
SessionExpAuth_create_session(map, user_id, uuid, clock) ==
    IF Not(user_id) THEN [ret |-> None, map |-> map]
    ELSE LET made == SessionAuth_create_session(map, user_id, uuid)
         IN  IF Not(made.ret) THEN [ret |-> None, map |-> made.map]
             ELSE IF Not(Get(made.map, made.ret, None))
                  THEN [ret |-> None, map |-> made.map]
             ELSE [ret |-> made.ret,
                   map |-> Put(made.map, made.ret,
                               [user_id |-> Get(made.map, made.ret, None),
                                created_at |-> clock])]

\* user_id_for_session_id that expires a session at created_at + duration
user_id_for_session_id_strict(map, duration, session_id, clock) ==
    IF Not(session_id) THEN [ret |-> None, map |-> map]
    ELSE IF session_id \notin DOMAIN map THEN [ret |-> None, map |-> map]
    ELSE IF duration <= 0 THEN [ret |-> map[session_id].user_id, map |-> map]
    ELSE IF map[session_id].created_at + duration <= clock
         THEN [ret |-> None, map |-> map]
    ELSE [ret |-> map[session_id].user_id, map |-> map]

\* user_id_for_session_id that never looks at created_at
user_id_for_session_id_no_expiry(map, duration, session_id, clock) ==
    IF Not(session_id) THEN [ret |-> None, map |-> map]
    ELSE IF session_id \notin DOMAIN map THEN [ret |-> None, map |-> map]
    ELSE [ret |-> map[session_id].user_id, map |-> map]

\* user_id_for_session_id that treats only a zero duration as "no expiry"
user_id_for_session_id_zero_only(map, duration, session_id, clock) ==
    IF Not(session_id) THEN [ret |-> None, map |-> map]
    ELSE IF session_id \notin DOMAIN map THEN [ret |-> None, map |-> map]
    ELSE IF duration = 0 THEN [ret |-> map[session_id].user_id, map |-> map]
    ELSE IF map[session_id].created_at + duration < clock
         THEN [ret |-> None, map |-> map]
    ELSE [ret |-> map[session_id].user_id, map |-> map]

\* user_id_for_session_id that deletes the entry of an expired session
user_id_for_session_id_evicting(map, duration, session_id, clock) ==
    IF Not(session_id) THEN [ret |-> None, map |-> map]
    ELSE IF session_id \notin DOMAIN map THEN [ret |-> None, map |-> map]
    ELSE IF duration <= 0 THEN [ret |-> map[session_id].user_id, map |-> map]
    ELSE IF map[session_id].created_at + duration < clock
         THEN [ret |-> None, map |-> Pop(map, session_id)]
    ELSE [ret |-> map[session_id].user_id, map |-> map]

\* user_id_for_session_id that restarts the duration of a session at each
\* successful lookup
user_id_for_session_id_sliding(map, duration, session_id, clock) ==
    IF Not(session_id) THEN [ret |-> None, map |-> map]
    ELSE IF session_id \notin DOMAIN map THEN [ret |-> None, map |-> map]
    ELSE IF duration <= 0 THEN [ret |-> map[session_id].user_id, map |-> map]
    ELSE IF map[session_id].created_at + duration < clock
         THEN [ret |-> None, map |-> map]
    ELSE [ret |-> map[session_id].user_id,
          map |-> Put(map, session_id,
                      [user_id |-> map[session_id].user_id,
                       created_at |-> clock])]

\* SessionExpAuth.user_id_for_session_id(session_id) at time clock, with
\* session_duration = duration
SessionExpAuth_user_id_for_session_id(map, duration, session_id, clock) ==
    IF Not(session_id) THEN [ret |-> None, map |-> map]
    ELSE IF session_id \notin DOMAIN map THEN [ret |-> None, map |-> map]
    ELSE IF Not(map[session_id].user_id) THEN [ret |-> None, map |-> map]
    ELSE IF duration <= 0 THEN [ret |-> map[session_id].user_id, map |-> map]
    ELSE IF "created_at" \notin DOMAIN map[session_id]
         THEN [ret |-> None, map |-> map]
    ELSE IF map[session_id].created_at + duration < clock
         THEN [ret |-> None, map |-> map]
    ELSE [ret |-> map[session_id].user_id, map |-> map]

\* self.session_cookie(request): neither SessionExpAuth, SessionAuth nor
\* Auth defines session_cookie, so the attribute lookup raises.
session_cookie(request) == [exc |-> AttributeError, ret |-> None]

\* SessionAuth.destroy_session(request), run on a SessionExpAuth
destroy_session_request(map, duration, request, clock) ==
    IF request = NoRequest THEN [exc |-> None, ret |-> FALSE, map |-> map]
    ELSE LET cookie == session_cookie(request)
         IN  IF cookie.exc # None
             THEN [exc |-> cookie.exc, ret |-> FALSE, map |-> map]
             ELSE IF Not(cookie.ret)
                  THEN [exc |-> None, ret |-> FALSE, map |-> map]
             ELSE IF Not(SessionExpAuth_user_id_for_session_id(
                            map, duration, cookie.ret, clock).ret)
                  THEN [exc |-> None, ret |-> FALSE, map |-> map]
             ELSE [exc |-> None, ret |-> TRUE, map |-> Pop(map, cookie.ret)]

----------------------------------------------------------------------------
(* The expiring session manager: auth = SessionExpAuth() in a process      *)
(* whose SESSION_DURATION is one of EnvValues, and a clock that advances.  *)

EnvValues == {None, "abc", "0", "-1", "1", "2"}

UserIdArgs == {None, "", "user-1", "user-2"}

SessionIdArgs == {None, ""} \cup Uuids

Requests == {NoRequest} \cup {[cookie |-> c] : c \in SessionIdArgs}

InitExp ==
    /\ users = <<>>
    /\ uuid_count = 0
    /\ last = NoCall
    /\ current_password = <<>>
    /\ session_duration \in {SessionExpAuthInit(env) : env \in EnvValues}
    /\ user_id_by_session_id = <<>>
    /\ now = 0
    /\ DATA = <<>>
    /\ calls = NoCalls

\* time passes
Tick ==
    /\ now < MaxTime
    /\ now' = now + 1
    /\ last' = [op |-> "tick"]
    /\ UNCHANGED <<authVars, basicVars, raceVars, uuid_count, session_duration,
                   user_id_by_session_id>>

ExpCreateSession(user_id) ==
    LET r == SessionExpAuth_create_session(user_id_by_session_id, user_id,
                                           NextUuid, now)
    IN  /\ ~Not(user_id) => uuid_count < MaxUuid
        /\ user_id_by_session_id' = r.map
        /\ uuid_count' = IF Not(user_id) THEN uuid_count ELSE uuid_count + 1
        /\ last' = [op |-> "create_session", user_id |-> user_id,
                    ret |-> r.ret]
        /\ UNCHANGED <<authVars, basicVars, raceVars, session_duration, now>>

ExpUserIdForSessionId(session_id) ==
    LET r == SessionExpAuth_user_id_for_session_id(
                 user_id_by_session_id, session_duration, session_id, now)
    IN  /\ user_id_by_session_id' = r.map
        /\ last' = [op |-> "user_id_for_session_id",
                    session_id |-> session_id, ret |-> r.ret]
        /\ UNCHANGED <<authVars, basicVars, raceVars, uuid_count, session_duration, now>>

ExpDestroySession(request) ==
    LET r == destroy_session_request(user_id_by_session_id, session_duration,
                                     request, now)
    IN  /\ user_id_by_session_id' = r.map
        /\ last' = [op |-> "destroy_session", request |-> request,
                    exc |-> r.exc, ret |-> r.ret]
        /\ UNCHANGED <<authVars, basicVars, raceVars, uuid_count, session_duration, now>>

NextExp ==
    \/ Tick
    \/ \E user_id \in UserIdArgs : ExpCreateSession(user_id)
    \/ \E session_id \in SessionIdArgs : ExpUserIdForSessionId(session_id)
    \/ \E request \in Requests : ExpDestroySession(request)

SpecExp == InitExp /\ [][NextExp]_vars

----------------------------------------------------------------------------
(* 0x02 api/v1/auth/auth.py : Auth.require_auth.  A path is the sequence   *)
(* of its characters; excluded_paths is a sequence of such strings, or     *)
(* NoList for Python None.                                                 *)

\* Python None where the value is otherwise a list of str
NoList == <<<<None>>>>

\* c in s, for a character c
In(c, s) == \E i \in 1..Len(s) : s[i] = c

\* s.replace(old, ""), for a character old
replace(s, old) == SelectSeq(s, LAMBDA c : c # old)

\* s.startswith(prefix)
startswith(s, prefix) ==
    /\ Len(prefix) <= Len(s)
    /\ SubSeq(s, 1, Len(prefix)) = prefix

\* x in excluded_paths, for a str x
Member(x, excluded_paths) ==
    \E i \in 1..Len(excluded_paths) : excluded_paths[i] = x

\* the for loop of require_auth over the entries still to visit:
\* [returned |-> TRUE, ret |-> r] when an iteration returns r, and
\* [returned |-> FALSE] when the loop runs to its end
RECURSIVE require_auth_for(_, _)
require_auth_for(path, entries) ==
    IF entries = <<>> THEN [returned |-> FALSE, ret |-> FALSE]
    ELSE IF In("*", Head(entries))
         THEN [returned |-> TRUE,
               ret |-> ~startswith(path, replace(Head(entries), "*"))]
    ELSE require_auth_for(path, Tail(entries))

\* require_auth that accepts an exact entry only when it equals the path
require_auth_exact_only(path, excluded_paths) ==
    IF excluded_paths = NoList THEN TRUE
    ELSE IF Len(excluded_paths) = 0 THEN TRUE
    ELSE IF require_auth_for(path, excluded_paths).returned
         THEN require_auth_for(path, excluded_paths).ret
    ELSE ~Member(path, excluded_paths)

\* require_auth that exempts a path matching any wildcard entry, and a path
\* equal to an exact entry whatever wildcard entries there are
require_auth_any_entry(path, excluded_paths) ==
    IF excluded_paths = NoList THEN TRUE
    ELSE IF Len(excluded_paths) = 0 THEN TRUE
    ELSE ~(\/ \E i \in 1..Len(excluded_paths) :
                 /\ In("*", excluded_paths[i])
                 /\ startswith(path, replace(excluded_paths[i], "*"))
           \/ Member(path, excluded_paths)
           \/ Member(path \o <<"/">>, excluded_paths))

\* Auth.require_auth(path, excluded_paths)
require_auth(path, excluded_paths) ==
    IF excluded_paths = NoList THEN TRUE
    ELSE IF Len(excluded_paths) = 0 THEN TRUE
    ELSE IF require_auth_for(path, excluded_paths).returned
         THEN require_auth_for(path, excluded_paths).ret
    ELSE ~(Member(path, excluded_paths)
               \/ Member(path \o <<"/">>, excluded_paths))

----------------------------------------------------------------------------
(* The access policy: one require_auth call for each request path and     *)
(* each exemption list below.                                              *)

MaxExcluded == 2

\* request.path : "/s", "/s/", "/s//", "/p", "/p/s"
Paths ==
    {<<"/", "s">>, <<"/", "s", "/">>, <<"/", "s", "/", "/">>,
     <<"/", "p">>, <<"/", "p", "/", "s">>}

\* entries of excluded_paths: the paths, and "/s*", "/p*", "/p/*", "*",
\* "/*s"
ExcludedEntries ==
    Paths \cup {<<"/", "s", "*">>, <<"/", "p", "*">>, <<"/", "p", "/", "*">>,
                <<"*">>, <<"/", "*", "s">>}

RECURSIVE ListsOf(_, _)
ListsOf(S, n) ==
    IF n = 0 THEN {<<>>}
    ELSE ListsOf(S, n - 1)
             \cup {Append(l, x) : l \in ListsOf(S, n - 1), x \in S}

ExcludedPaths == {NoList} \cup ListsOf(ExcludedEntries, MaxExcluded)

\* a request for path arrives at an app configured with excluded_paths
Request(path, excluded_paths) ==
    [op |-> "request", path |-> path, excluded_paths |-> excluded_paths]

\* before_request: auth.require_auth(request.path, excluded_paths)
RequireAuth ==
    /\ last.op = "request"
    /\ last' = [op |-> "require_auth", path |-> last.path,
                excluded_paths |-> last.excluded_paths,
                ret |-> require_auth(last.path, last.excluded_paths)]
    /\ UNCHANGED <<authVars, uuid_count, expVars, basicVars, raceVars>>

InitPolicy ==
    /\ users = <<>>
    /\ uuid_count = 0
    /\ last \in {Request(path, excluded_paths) :
                     path \in Paths, excluded_paths \in ExcludedPaths}
    /\ current_password = <<>>
    /\ session_duration = 0
    /\ user_id_by_session_id = <<>>
    /\ now = 0
    /\ DATA = <<>>
    /\ calls = NoCalls

NextPolicy == RequireAuth

SpecPolicy == InitPolicy /\ [][NextPolicy]_vars

----------------------------------------------------------------------------
(* 0x01 api/v1/auth/basic_auth.py : BasicAuth.  The Authorization header   *)
(* is kept as header.split(" "), the sequence of its space-free words; a   *)
(* decoded credential string is kept as s.split(":"), the sequence of its  *)
(* colon-free parts.  Python None for such a value is NoStr.               *)

NoStr == <<None>>

\* `not s` for a split str-or-None value: None, or the empty string
NotStr(s) == s = NoStr \/ s = <<"">>

\* the base64 texts of the model that b64decode accepts, and the bytes each
\* encodes: UTF-8 text, split at its colons, or the single byte 0xff
InvalidUtf8 == <<"0xff">>

Base64 ==
    ("YUBiLmNvbTpi" :> <<"a@b.com", "b">>)
        @@ ("YUBiLmNvbTpiOmM=" :> <<"a@b.com", "b", "c">>)
        @@ ("Y0BkLmNvbTpi" :> <<"c@d.com", "b">>)
        @@ ("YUBiLmNvbQ==" :> <<"a@b.com">>)
        @@ ("OmI=" :> <<"", "b">>)
        @@ ("YUBiLmNvbTo=" :> <<"a@b.com", "">>)
        @@ ("/w==" :> InvalidUtf8)

\* base64.b64decode(s): binascii.Error on text that is not base64 ("abc"
\* has incorrect padding)
b64decode(s) ==
    IF s \in DOMAIN Base64 THEN [exc |-> None, ret |-> Base64[s]]
    ELSE [exc |-> "binascii.Error", ret |-> NoStr]

\* bytes.decode("utf-8")
decode(bytes) ==
    IF bytes = InvalidUtf8 THEN [exc |-> "UnicodeDecodeError", ret |-> NoStr]
    ELSE [exc |-> None, ret |-> bytes]

\* Auth.authorization_header(request)
authorization_header(request) ==
    IF request = NoRequest THEN NoStr
    ELSE IF "Authorization" \in DOMAIN request.headers
         THEN request.headers.Authorization
    ELSE NoStr

\* extract_base64_authorization_header that accepts every scheme word
extract_base64_any_scheme(header) ==
    IF NotStr(header) THEN None
    ELSE IF Len(header) >= 2 THEN header[2]
    ELSE None

\* BasicAuth.extract_base64_authorization_header(authorization_header):
\* "^Basic " matches when the first word is Basic and a space follows it
extract_base64_authorization_header(header) ==
    IF NotStr(header) THEN None
    ELSE IF header[1] = "Basic" /\ Len(header) >= 2 THEN header[2]
    ELSE None

\* BasicAuth.decode_base64_authorization_header(base64_authorization_header)
decode_base64_authorization_header(base64_authorization_header) ==
    IF Not(base64_authorization_header) THEN NoStr
    ELSE LET bytes == b64decode(base64_authorization_header)
         IN  IF bytes.exc # None THEN NoStr
             ELSE IF decode(bytes.ret).exc # None THEN NoStr
             ELSE decode(bytes.ret).ret

\* extract_user_credentials that splits at every colon
extract_user_credentials_every_colon(decoded) ==
    IF NotStr(decoded) THEN [email |-> None, pwd |-> NoStr]
    ELSE IF Len(decoded) >= 2
         THEN [email |-> decoded[1], pwd |-> <<decoded[2]>>]
    ELSE [email |-> None, pwd |-> NoStr]

\* BasicAuth.extract_user_credentials(decoded_base64_authorization_header):
\* split(":", 1) leaves the later colons in the second element
extract_user_credentials(decoded) ==
    IF NotStr(decoded) THEN [email |-> None, pwd |-> NoStr]
    ELSE IF Len(decoded) >= 2
         THEN [email |-> decoded[1], pwd |-> Tail(decoded)]
    ELSE [email |-> None, pwd |-> NoStr]

\* 0x01 models/user.py : the stored password is a one-way hash of the text
encrypt(pwd) == [digest |-> pwd]

\* User(email=..., password=...).save(): the object is stored under its
\* class, after the objects stored before it
save(data, email, pwd) ==
    LET stored == IF "User" \in DOMAIN data THEN data.User ELSE <<>>
    IN  [User |-> Append(stored, [id |-> Len(stored) + 1, email |-> email,
                                  password |-> encrypt(pwd)])]

\* User.search({"email": email}): the stored users with that email, in the
\* order they were stored; the lookup raises when no User was ever stored
search(data, email) ==
    IF "User" \notin DOMAIN data THEN [exc |-> "KeyError", ret |-> <<>>]
    ELSE [exc |-> None,
          ret |-> SelectSeq(data.User, LAMBDA user : user.email = email)]

\* user.is_valid_password(pwd)
is_valid_password(user, pwd) ==
    IF pwd = NoStr THEN FALSE ELSE user.password = encrypt(pwd)

\* the loop of user_object_from_credentials: the first user of the list
\* whose password is valid, None when the loop ends
RECURSIVE first_valid(_, _)
first_valid(found, user_pwd) ==
    IF found = <<>> THEN NoUser
    ELSE IF is_valid_password(Head(found), user_pwd) THEN Head(found)
    ELSE first_valid(Tail(found), user_pwd)

\* BasicAuth.user_object_from_credentials(user_email, user_pwd)
user_object_from_credentials(data, user_email, user_pwd) ==
    IF Not(user_email) \/ NotStr(user_pwd) THEN NoUser
    ELSE LET found == search(data, user_email)
         IN  IF found.exc # None THEN NoUser
             ELSE IF found.ret = <<>> THEN NoUser
             ELSE first_valid(found.ret, user_pwd)

\* BasicAuth.current_user(request): [exc, ret]; every step is inside the
\* try, and none of them raises
current_user(data, request) ==
    LET header == authorization_header(request)
        base64_header == extract_base64_authorization_header(header)
        decode_base64_header ==
            decode_base64_authorization_header(base64_header)
        credentials == extract_user_credentials(decode_base64_header)
    IN  [exc |-> None,
         ret |-> user_object_from_credentials(data, credentials.email,
                                              credentials.pwd)]

----------------------------------------------------------------------------
(* The Basic authentication service: users are stored, and requests are   *)
(* resolved to a user by auth = BasicAuth().                               *)

MaxUsers == 2

\* passwords of stored users: "b" and "b:c"
UserPasswords == {<<"b">>, <<"b", "c">>}

\* the payloads clients send: the base64 texts above and a text that is
\* not base64
Payloads == DOMAIN Base64 \cup {"abc"}

\* Authorization headers: "", "Basic", "Basic ", "Basic <payload>",
\* "Basic <payload> x", "Basic  <payload>", "basic <payload>" and
\* "Bearer <payload>"
Headers ==
    {<<"">>, <<"Basic">>, <<"Basic", "">>}
        \cup {<<"Basic", payload>> : payload \in Payloads}
        \cup {<<"Basic", "YUBiLmNvbTpi", "x">>, <<"Basic", "", "YUBiLmNvbTpi">>,
              <<"basic", "YUBiLmNvbTpi">>, <<"Bearer", "YUBiLmNvbTpi">>}

\* a request without Authorization header, and one with each header
BasicRequests ==
    {NoRequest, [headers |-> [Host |-> "localhost"]]}
        \cup {[headers |-> [Host |-> "localhost", Authorization |-> header]] :
                  header \in Headers}

SaveUser(email, pwd) ==
    /\ "User" \in DOMAIN DATA => Len(DATA.User) < MaxUsers
    /\ DATA' = save(DATA, email, pwd)
    /\ last' = [op |-> "save", email |-> email]
    /\ UNCHANGED <<authVars, uuid_count, expVars, raceVars>>

CurrentUser(request) ==
    LET r == current_user(DATA, request)
    IN  /\ last' = [op |-> "current_user", request |-> request,
                    exc |-> r.exc, ret |-> r.ret]
        /\ UNCHANGED <<authVars, uuid_count, expVars, basicVars, raceVars>>

InitBasic == InitAuth

NextBasic ==
    \/ \E email \in Emails, pwd \in UserPasswords : SaveUser(email, pwd)
    \/ \E request \in BasicRequests : CurrentUser(request)

SpecBasic == InitBasic /\ [][NextBasic]_vars

----------------------------------------------------------------------------
(* Properties of the Auth service (SpecAuth)                               *)

\* the id of the user a session id resolves to, 0 when it resolves to none
ResolveId(us, session_id) ==
    IF get_user_from_session_id(us, session_id) = NoUser THEN 0
    ELSE get_user_from_session_id(us, session_id).id

\* the step just taken is a create_session or destroy_session on user id
SessionCallOn(id) ==
    \/ last'.op = "create_session" /\ last'.email = users[id].email
    \/ last'.op = "destroy_session" /\ last'.user_id = id

\* update_password with token t fails for every password and changes
\* nothing, and PUT /reset_password with t answers 403
Rejected(us, t) ==
    \A p \in Passwords, salt \in Salts :
        LET r == update_password(us, t, p, salt)
        IN  /\ r.exc = ValueError
            /\ r.users = us
            /\ \A e \in Emails :
                  LET put == put_reset_password(
                                 us, [email |-> e, reset_token |-> t,
                                      new_password |-> p], salt)
                  IN  put.status = 403 /\ put.users = us

\* update_password with token t sets the password of user id
Accepted(us, t, id) ==
    \A p \in Passwords, salt \in Salts :
        LET r == update_password(us, t, p, salt)
        IN  /\ r.exc = None
            /\ r.users[id].hashed_password = _hash_password(p, salt)
            /\ \A i \in 1..Len(us) :
                  i # id => r.users[i].hashed_password = us[i].hashed_password

(* C1: when create_session(email) returns t2 for a user whose session id   *)
(* was t1, then t1 resolves to no user and t2 resolves to that user; a     *)
(* generated session id that resolves to no user never resolves again, and *)
(* one that resolves to a user keeps resolving to that user through every  *)
(* call that is not a create_session or destroy_session on that user.      *)
C1_AfterSecond ==
    (last.op = "create_session" /\ last.ret # None /\ last.replaced # None)
        => /\ get_user_from_session_id(users, last.replaced) = NoUser
           /\ get_user_from_session_id(users, last.ret) # NoUser
           /\ get_user_from_session_id(users, last.ret).email = last.email

C1_Step ==
    \/ users' = users
    \/ \A t \in Generated :
          /\ ResolveId(users, t) = 0 => ResolveId(users', t) = 0
          /\ (ResolveId(users, t) # 0 /\ ~SessionCallOn(ResolveId(users, t)))
                => ResolveId(users', t) = ResolveId(users, t)

C1_SecondSessionInvalidatesFirst == [](C1_AfterSecond) /\ [][C1_Step]_vars

C1_Witness ==
    /\ last.op = "create_session"
    /\ last.replaced # None
    /\ Len(users) = Cardinality(Emails)

(* C2: after update_password(t, p) succeeded for a generated token t,      *)
(* update_password(t, p') raises ValueError for every p', changes no row   *)
(* and PUT /reset_password answers 403; and a generated token that is      *)
(* rejected stays rejected after every call.                               *)
C2_AfterConsumed ==
    (last.op = "update_password" /\ last.exc = None
        /\ last.reset_token \in Generated)
        => Rejected(users, last.reset_token)

C2_Step ==
    \/ users' = users
    \/ \A t \in Generated : Rejected(users, t) => Rejected(users', t)

C2_ResetTokenSingleUse == [](C2_AfterConsumed) /\ [][C2_Step]_vars

C2_Witness ==
    /\ last.op = "update_password"
    /\ last.exc = None
    /\ last.reset_token \in Generated

(* C3: update_password(token, password) changes a hashed_password only of  *)
(* a user holding a non-null reset_token equal to token; for every other   *)
(* token, None included, it raises ValueError and changes no row.          *)
C3_OnlyTokenHolderChanges ==
    \A token \in Tokens, p \in Passwords, salt \in Salts :
        LET r == update_password(users, token, p, salt)
            Holders == {i \in 1..Len(users) :
                            /\ users[i].reset_token # None
                            /\ users[i].reset_token = token}
        IN  /\ Holders = {} => (r.exc = ValueError /\ r.users = users)
            /\ \A i \in 1..Len(users) :
                  r.users[i].hashed_password # users[i].hashed_password
                      => i \in Holders

(* C4: get_reset_password_token(email) raises ValueError and changes no    *)
(* row when no user has that email; otherwise it returns a fresh token and *)
(* stores it on that user, after which update_password accepts the new     *)
(* token for that user and rejects the token it replaced.                  *)
C4_ResetTokenOverwrites ==
    \A email \in Emails :
        LET r == get_reset_password_token(users, email, NextUuid)
        IN  IF ~Exists(users, [email |-> email])
            THEN r.exc = ValueError /\ r.users = users
            ELSE LET id == IdOf(users, [email |-> email])
                     old == users[id].reset_token
                 IN  /\ r.exc = None
                     /\ r.ret \notin Generated
                     /\ r.users[id].reset_token = r.ret
                     /\ Accepted(r.users, r.ret, id)
                     /\ old # None => Rejected(r.users, old)

C4_Witness ==
    /\ last.op = "get_reset_password_token"
    /\ last.replaced # None
    /\ Exists(users, [email |-> last.email])
    /\ users[IdOf(users, [email |-> last.email])].reset_token = last.ret

(* C5: valid_login(email, p) is True exactly when a user with that email   *)
(* exists and p is the password most recently set for that user.           *)
C5_ValidLoginIffCurrentPassword ==
    \A email \in Emails, p \in Passwords :
        valid_login(users, email, p)
            = (/\ Exists(users, [email |-> email])
               /\ current_password[IdOf(users, [email |-> email])] = p)

(* C6: after destroy_session cleared session id s of a user, that user has *)
(* no session, s resolves to no user and GET /profile with s answers 403;  *)
(* DELETE /sessions with a valid cookie s leaves s in the same state; a    *)
(* generated session id that GET /profile refuses is refused after every   *)
(* later call, and create_session never returns an id generated before.    *)
C6_AfterLogout ==
    /\ (last.op = "destroy_session" /\ last.cleared # None)
          => /\ users[last.user_id].session_id = None
             /\ get_user_from_session_id(users, last.cleared) = NoUser
             /\ profile(users, last.cleared).status = 403
    /\ \A s \in Tokens :
          logout(users, s).status = 302
              => /\ get_user_from_session_id(logout(users, s).users, s) = NoUser
                 /\ profile(logout(users, s).users, s).status = 403

C6_Step ==
    /\ \/ users' = users
       \/ \A s \in Generated :
             profile(users, s).status = 403 => profile(users', s).status = 403
    /\ (last'.op = "create_session" /\ last'.ret # None)
          => last'.ret \notin Generated

C6_LogoutInvalidatesSession == [](C6_AfterLogout) /\ [][C6_Step]_vars

C6_Witness ==
    /\ last.op = "destroy_session"
    /\ last.cleared # None
    /\ profile(users, last.cleared).status = 403

----------------------------------------------------------------------------
(* Properties of the expiring session manager (SpecExp)                    *)

\* user_id_for_session_id(session_id) called in the current state
Lookup(session_id) ==
    SessionExpAuth_user_id_for_session_id(
        user_id_by_session_id, session_duration, session_id, now)

\* the last call was a lookup of a stored session id
LookedUpStored ==
    /\ last.op = "user_id_for_session_id"
    /\ last.session_id \in DOMAIN user_id_by_session_id

(* C7 as stated: with session_duration D > 0 the lookup of a stored        *)
(* session returns its user id exactly when created_at + D > now, and None *)
(* otherwise, so also at now = created_at + D.                             *)
C7_ValidIffStrictlyBefore ==
    session_duration > 0 =>
        \A sid \in DOMAIN user_id_by_session_id :
            Lookup(sid).ret =
                IF user_id_by_session_id[sid].created_at + session_duration > now
                THEN user_id_by_session_id[sid].user_id
                ELSE None

(* C7 amended: with session_duration D > 0 the lookup of a stored session  *)
(* returns its user id exactly when created_at + D >= now, and None        *)
(* otherwise; at now = created_at + D it still returns the user id.        *)
C7_ValidIffNotAfter ==
    session_duration > 0 =>
        \A sid \in DOMAIN user_id_by_session_id :
            Lookup(sid).ret =
                IF user_id_by_session_id[sid].created_at + session_duration >= now
                THEN user_id_by_session_id[sid].user_id
                ELSE None

C7_Witness ==
    /\ session_duration > 0
    /\ LookedUpStored
    /\ user_id_by_session_id[last.session_id].created_at + session_duration = now
    /\ last.ret = user_id_by_session_id[last.session_id].user_id

(* C8: with session_duration D > 0, create_session stamps the session with *)
(* the time of the call, a lookup at now = created_at returns the user id, *)
(* and a lookup at any now > created_at + D returns None.                  *)
C8_ValidAtCreationExpiredAfter ==
    session_duration > 0 =>
        /\ (last.op = "create_session" /\ last.ret # None)
              => /\ last.ret \in DOMAIN user_id_by_session_id
                 /\ user_id_by_session_id[last.ret].created_at = now
                 /\ Lookup(last.ret).ret = last.user_id
        /\ \A sid \in DOMAIN user_id_by_session_id :
              /\ now = user_id_by_session_id[sid].created_at
                    => Lookup(sid).ret = user_id_by_session_id[sid].user_id
              /\ now > user_id_by_session_id[sid].created_at + session_duration
                    => Lookup(sid).ret = None

C8_Witness ==
    /\ session_duration > 0
    /\ LookedUpStored
    /\ now > user_id_by_session_id[last.session_id].created_at + session_duration
    /\ last.ret = None

(* C9: an absent, unparsable, zero or negative SESSION_DURATION leaves     *)
(* session_duration <= 0, and then the lookup of every stored session      *)
(* returns its user id at every time.                                      *)
C9_NonPositiveDurationNeverExpires ==
    /\ \A env \in {None, "abc", "0", "-1"} : SessionExpAuthInit(env) <= 0
    /\ session_duration <= 0 =>
          \A sid \in DOMAIN user_id_by_session_id :
              Lookup(sid).ret = user_id_by_session_id[sid].user_id

C9_Witness ==
    /\ session_duration < 0
    /\ LookedUpStored
    /\ now >= user_id_by_session_id[last.session_id].created_at + 2
    /\ last.ret = user_id_by_session_id[last.session_id].user_id

(* C10: user_id_for_session_id leaves the session map as it found it, for  *)
(* every session id (None, empty, unknown, valid or expired) and at every  *)
(* time: no entry is removed and no created_at is changed.                 *)
C10_LookupIsReadOnly ==
    \A sid \in SessionIdArgs, clock \in 0..MaxTime :
        SessionExpAuth_user_id_for_session_id(
            user_id_by_session_id, session_duration, sid, clock).map
                = user_id_by_session_id

C10_Witness ==
    /\ LookedUpStored
    /\ session_duration > 0
    /\ last.ret = None
    /\ user_id_by_session_id[last.session_id].created_at + session_duration < now

(* C11: at most one session id of the session map resolves to a given user *)
(* id: two stored session ids that both resolve to a user resolve to        *)
(* different users, so the id an earlier create_session(u) returned         *)
(* resolves to None once a later create_session(u) has returned.            *)
C11_OneSessionPerUser ==
    \A s1, s2 \in DOMAIN user_id_by_session_id :
        (Lookup(s1).ret # None /\ Lookup(s1).ret = Lookup(s2).ret) => s1 = s2

----------------------------------------------------------------------------
(* Properties of the access policy (SpecPolicy)                            *)

\* the entries of a list, and whether one of them contains a wildcard
Entries(excluded_paths) ==
    {excluded_paths[i] : i \in 1..Len(excluded_paths)}

HasWildcard(excluded_paths) ==
    \E entry \in Entries(excluded_paths) : In("*", entry)

\* the first entry, in list order, that contains a wildcard
FirstWildcard(excluded_paths) ==
    excluded_paths[Min({i \in 1..Len(excluded_paths) :
                            In("*", excluded_paths[i])})]

(* C12: require_auth returns True when excluded_paths is None or empty;    *)
(* for a non-empty list without wildcard entry it returns False exactly    *)
(* when the path, or the path followed by one "/", is an entry of the      *)
(* list; so require_auth("/s", ["/s/"]) is False.                          *)
C12_ExemptIffExactOrTrailingSlash ==
    /\ last.op = "require_auth" =>
          /\ (last.excluded_paths = NoList \/ last.excluded_paths = <<>>)
                => last.ret = TRUE
          /\ (/\ last.excluded_paths # NoList
              /\ last.excluded_paths # <<>>
              /\ ~HasWildcard(last.excluded_paths))
                => last.ret =
                      ~(\/ last.path \in Entries(last.excluded_paths)
                        \/ last.path \o <<"/">>
                               \in Entries(last.excluded_paths))
    /\ require_auth(<<"/", "s">>, << <<"/", "s", "/">> >>) = FALSE

C12_Witness ==
    /\ last.op = "require_auth"
    /\ last.path = <<"/", "s">>
    /\ last.excluded_paths = << <<"/", "s", "/">> >>
    /\ last.ret = FALSE

(* C13: for a list with at least one wildcard entry, require_auth returns  *)
(* False exactly when the path starts with the first wildcard entry        *)
(* stripped of "*", whatever the later wildcard entries and the exact      *)
(* entries are, an exact entry before the wildcard that equals the path    *)
(* included.                                                               *)
C13_FirstWildcardDecides ==
    (last.op = "require_auth" /\ last.excluded_paths # NoList
        /\ HasWildcard(last.excluded_paths))
        => last.ret =
              ~startswith(last.path,
                          replace(FirstWildcard(last.excluded_paths), "*"))

C13_Witness ==
    /\ last.op = "require_auth"
    /\ last.excluded_paths = <<last.path, <<"/", "p", "/", "*">>>>
    /\ ~startswith(last.path, <<"/", "p", "/">>)
    /\ last.ret = TRUE

----------------------------------------------------------------------------
(* Properties of the Basic authentication service (SpecBasic)              *)

\* the users stored so far
Stored == IF "User" \in DOMAIN DATA THEN DATA.User ELSE <<>>

\* the credential string a request carries, decoded
Decoded(request) ==
    decode_base64_authorization_header(
        extract_base64_authorization_header(authorization_header(request)))

\* the stored users whose email is the identifier of the decoded credential
\* string and whose stored password is the hash of its secret, the secret
\* being all that follows the first colon; both non-empty
Verifying(decoded) ==
    {i \in 1..Len(Stored) :
        /\ Len(decoded) >= 2
        /\ decoded[1] # "" /\ Tail(decoded) # <<"">>
        /\ Stored[i].email = decoded[1]
        /\ Stored[i].password = encrypt(Tail(decoded))}

(* C14: current_user returns a user only if that user's email is the       *)
(* identifier before the first colon of the decoded credential string and  *)
(* the user's password verifies against everything after that colon; it    *)
(* returns the first stored user for which this holds, and None when there *)
(* is none.                                                                *)
C14_FirstVerifyingUser ==
    last.op = "current_user" =>
        last.ret = IF Verifying(Decoded(last.request)) # {}
                   THEN Stored[Min(Verifying(Decoded(last.request)))]
                   ELSE NoUser

C14_Witness ==
    /\ last.op = "current_user"
    /\ last.ret # NoUser
    /\ last.ret.id = 2
    /\ Stored[1].email = last.ret.email
    /\ Len(Decoded(last.request)) = 3

\* the request has no Authorization header
NoHeader(request) ==
    request = NoRequest \/ "Authorization" \notin DOMAIN request.headers

\* the header does not start with "Basic "
WrongPrefix(header) == ~(Len(header) >= 2 /\ header[1] = "Basic")

\* the payload is empty, is not base64, or is not the base64 of UTF-8 text
BadEncoding(payload) ==
    \/ payload = ""
    \/ payload \notin DOMAIN Base64
    \/ Base64[payload] = InvalidUtf8

\* the decoded string has no colon, or nothing before or after the first
BadCredentials(decoded) ==
    \/ Len(decoded) = 1
    \/ decoded[1] = ""
    \/ Tail(decoded) = <<"">>

(* C15: current_user raises nothing, and returns None for a missing        *)
(* request or Authorization header, a header not starting with "Basic ",   *)
(* a payload that is not base64 of UTF-8 text, a decoded string without    *)
(* colon or with an empty identifier or secret, and a lookup that raises.  *)
C15_FailuresYieldNone ==
    last.op = "current_user" =>
        /\ last.exc = None
        /\ (\/ NoHeader(last.request)
            \/ WrongPrefix(last.request.headers.Authorization)
            \/ BadEncoding(last.request.headers.Authorization[2])
            \/ BadCredentials(Base64[last.request.headers.Authorization[2]])
            \/ "User" \notin DOMAIN DATA)
              => last.ret = NoUser

C15_Witness ==
    /\ last.op = "current_user"
    /\ last.request \in BasicRequests \ {NoRequest}
    /\ ~NoHeader(last.request)
    /\ last.request.headers.Authorization[1] = "Bearer"
    /\ Verifying(Base64[last.request.headers.Authorization[2]]) # {}
    /\ last.ret = NoUser

----------------------------------------------------------------------------
(* Further properties of the Auth service (SpecAuth)                       *)

(* C16: no two users have the same email; register_user with an email that *)
(* is already registered raises ValueError, POST /users answers 400, and   *)
(* the table, the existing user's hashed_password included, stays as it    *)
(* was.                                                                    *)
C16_EmailsUnique ==
    /\ \A i, j \in 1..Len(users) : users[i].email = users[j].email => i = j
    /\ \A email \in Emails, password \in Passwords, salt \in Salts :
          Exists(users, [email |-> email])
              => /\ register_user(users, email, password, salt).exc = ValueError
                 /\ register_user(users, email, password, salt).users = users
                 /\ register(users, [email |-> email, password |-> password],
                             salt).status = 400
                 /\ register(users, [email |-> email, password |-> password],
                             salt).users = users
    /\ (last.op = "register_user" /\ last.exc = ValueError)
          => Exists(users, [email |-> last.email])

C16_Witness ==
    /\ last.op = "register_user"
    /\ last.exc = ValueError
    /\ Len(users) = Cardinality(Emails)
    /\ \E i \in 1..Len(users) : users[i].session_id # None

----------------------------------------------------------------------------
(* Properties of the record store (SpecDB)                                 *)

Updated(row, kwargs) ==
    [col \in Columns |-> IF col \in DOMAIN kwargs THEN kwargs[col]
                                                  ELSE row[col]]

(* C18: update_user with a field name that is not a column fails and       *)
(* leaves the table as it was, other names of the call being columns or    *)
(* not; with column names only, it sets all of the given fields of that    *)
(* row and nothing else.  update_password changes a hashed_password only   *)
(* together with clearing that row's reset_token, and changes nothing when *)
(* it raises.                                                              *)
C18_UpdateAllOrNothing ==
    /\ \A user_id \in 1..Len(users), kwargs \in UpdateArgs :
          LET r == update_user(users, user_id, kwargs)
          IN  IF \E key \in DOMAIN kwargs : key \notin Columns
              THEN r.exc # None /\ r.users = users
              ELSE /\ r.exc = None
                   /\ r.users = [users EXCEPT
                                    ![user_id] = Updated(@, kwargs)]
    /\ \A reset_token \in Tokens, password \in Passwords, salt \in Salts :
          LET r == update_password(users, reset_token, password, salt)
          IN  /\ r.exc # None => r.users = users
              /\ \A i \in 1..Len(users) :
                    r.users[i].hashed_password # users[i].hashed_password
                        => r.users[i].reset_token = None

C18_Witness ==
    /\ last.op = "update_user"
    /\ last.exc = ValueError
    /\ last.keys = {"hashed_password", "password"}
    /\ last.user_id <= Len(users)
    /\ users[last.user_id].reset_token # None

----------------------------------------------------------------------------
(* Properties of the Flask app (SpecApp)                                   *)

\* email and password are the credentials of a registered user: the
\* password is the one last set for the user with that email
ValidCredentials(email, password) ==
    /\ Exists(users, [email |-> email])
    /\ current_password[IdOf(users, [email |-> email])] = password

(* C19: POST /sessions with an unknown email or a wrong password answers   *)
(* 401 and sets no cookie, and a login that answers 401 leaves every row,  *)
(* session ids included, as it was; with the credentials of a registered   *)
(* user it answers 200 and sets a cookie that resolves to that user.       *)
C19_LoginRejectsInvalidCredentials ==
    /\ (last.op = "POST /sessions" /\ last.password # <<>>)
          => IF ValidCredentials(last.email, last.password)
             THEN /\ last.status = 200
                  /\ last.cookie # None
                  /\ ResolveId(users, last.cookie)
                         = IdOf(users, [email |-> last.email])
             ELSE last.status = 401 /\ last.cookie = None
    /\ \A form \in CredentialForms :
          login(users, form, NextUuid).status = 401
              => login(users, form, NextUuid).users = users

----------------------------------------------------------------------------
(* Further properties of the session managers (SpecExp)                    *)

(* C20: destroy_session(request) raises nothing; without a request, with   *)
(* a request without session cookie, or with a cookie that resolves to no  *)
(* user, it returns False and leaves the session map as it was; otherwise  *)
(* it returns True and removes the entry of that cookie and no other, so   *)
(* that the same request is answered False afterwards.                     *)
C20_Step ==
    last'.op = "destroy_session" =>
        /\ last'.exc = None
        /\ IF \/ last'.request = NoRequest
              \/ Not(last'.request.cookie)
              \/ Lookup(last'.request.cookie).ret = None
           THEN /\ last'.ret = FALSE
                /\ user_id_by_session_id' = user_id_by_session_id
           ELSE /\ last'.ret = TRUE
                /\ user_id_by_session_id'
                       = Pop(user_id_by_session_id, last'.request.cookie)
                /\ destroy_session_request(
                       user_id_by_session_id', session_duration,
                       last'.request, now).ret = FALSE

C20_DestroySessionNeverRaises == [][C20_Step]_vars

----------------------------------------------------------------------------
(* Further properties of the access policy (SpecPolicy)                    *)

(* C21: for a list of one wildcard-free entry e, require_auth(p, [e]) is   *)
(* False whenever p = e, p followed by "/" is e, or p is e followed by     *)
(* "/".                                                                    *)
C21_TrailingSlashBothDirections ==
    (/\ last.op = "require_auth"
     /\ last.excluded_paths # NoList
     /\ Len(last.excluded_paths) = 1
     /\ ~HasWildcard(last.excluded_paths)
     /\ \/ last.path = last.excluded_paths[1]
        \/ last.path \o <<"/">> = last.excluded_paths[1]
        \/ last.path = last.excluded_paths[1] \o <<"/">>)
        => last.ret = FALSE

----------------------------------------------------------------------------
(* Further properties of the Basic authentication service (SpecBasic)      *)

(* C22: for the Authorization header of a request, when the header is      *)
(* "Basic " followed by a remainder, extract_base64_authorization_header   *)
(* returns that whole remainder, spaces included; for a header that does   *)
(* not start with "Basic " it returns None.                                *)
C22_ReturnsWholeRemainder ==
    (last.op = "current_user" /\ ~NoHeader(last.request))
        => LET header == last.request.headers.Authorization
               returned == extract_base64_authorization_header(header)
           IN  IF WrongPrefix(header) THEN returned = None
               ELSE <<returned>> = Tail(header)

----------------------------------------------------------------------------
(* Further properties of the Auth service (SpecAuth, SpecSessions)         *)

(* C23: no two distinct users hold the same non-null session_id, and no    *)
(* two hold the same non-null reset_token, so filtering by a non-null      *)
(* session_id or reset_token matches at most one row.                      *)
C23_TokensUnique ==
    /\ \A i, j \in 1..Len(users) :
           (i # j /\ users[i].session_id # None)
               => users[i].session_id # users[j].session_id
    /\ \A i, j \in 1..Len(users) :
           (i # j /\ users[i].reset_token # None)
               => users[i].reset_token # users[j].reset_token
    /\ \A t \in Tokens \ {None} :
           /\ Cardinality(filter_by(users, [session_id |-> t])) <= 1
           /\ Cardinality(filter_by(users, [reset_token |-> t])) <= 1

\* two users hold a session at once, the second just created
C23_Witness ==
    /\ last.op = "create_session"
    /\ last.ret # None
    /\ Len(users) = 2
    /\ users[1].session_id # None
    /\ users[2].session_id # None

(* C24: update_password and get_reset_password_token leave the session_id *)
(* of every user unchanged, so every session id resolves to the same user  *)
(* (or to none) before and after; create_session and destroy_session leave *)
(* the reset_token and the hashed_password of every user unchanged.        *)
C24_Step ==
    /\ last'.op \in {"update_password", "get_reset_password_token"}
          => /\ Len(users') = Len(users)
             /\ \A i \in 1..Len(users) :
                   users'[i].session_id = users[i].session_id
             /\ \A s \in Tokens : ResolveId(users', s) = ResolveId(users, s)
    /\ last'.op \in {"create_session", "destroy_session"}
          => /\ Len(users') = Len(users)
             /\ \A i \in 1..Len(users) :
                   /\ users'[i].reset_token = users[i].reset_token
                   /\ users'[i].hashed_password = users[i].hashed_password

C24_ResetIndependentOfSession == [][C24_Step]_vars

\* a password was just changed for a user who holds a session
C24_Witness ==
    /\ last.op = "update_password"
    /\ last.exc = None
    /\ users[last.user_id].session_id # None
    /\ ResolveId(users, users[last.user_id].session_id) = last.user_id

(* C27: None, the empty string and a value that was never generated       *)
(* resolve to no user.  A session id t resolves to user u after a call     *)
(* only if that call was a create_session for u that returned t, or t      *)
(* resolved to u before it and the call was neither a create_session nor a *)
(* destroy_session on u; so t resolves to u only while it is the result of *)
(* the latest create_session for u with no destroy_session on u since.  A  *)
(* generated id never comes to resolve to a user it did not resolve to.    *)
C27_Unissued ==
    \A t \in Tokens \ Generated :
        get_user_from_session_id(users, t) = NoUser

C27_Step ==
    \A t \in Tokens :
        LET before == ResolveId(users, t)
            after == ResolveId(users', t)
        IN  /\ after # 0
                => \/ before = after /\ ~SessionCallOn(after)
                   \/ /\ last'.op = "create_session"
                      /\ t # None
                      /\ last'.ret = t
                      /\ last'.email = users'[after].email
            /\ t \in Generated => after \in {0, before}

C27_SessionResolvesOnlyToItsUser == [](C27_Unissued) /\ [][C27_Step]_vars

\* the second user's session id was just looked up and resolved to that
\* user, while the first user holds none
C27_Witness ==
    /\ last.op = "get_user_from_session_id"
    /\ Len(users) = 2
    /\ last.ret = users[2].email
    /\ users[2].session_id = last.session_id
    /\ users[1].session_id = None

----------------------------------------------------------------------------
(* Further properties of the expiring session manager (SpecExp)            *)

\* session s is stored and, the duration being positive, past its expiry
Expired(s) ==
    /\ session_duration > 0
    /\ s \in DOMAIN user_id_by_session_id
    /\ user_id_by_session_id[s].created_at + session_duration < now

(* C25: with a positive duration, destroy_session on a request whose       *)
(* cookie is an expired session raises nothing, returns False and leaves   *)
(* the entry in user_id_by_session_id, and no call removes the entry of an *)
(* expired session.                                                        *)
C25_Step ==
    /\ (/\ last'.op = "destroy_session"
        /\ last'.request # NoRequest
        /\ Expired(last'.request.cookie))
          => /\ last'.exc = None
             /\ last'.ret = FALSE
             /\ last'.request.cookie \in DOMAIN user_id_by_session_id'
    /\ \A s \in DOMAIN user_id_by_session_id :
          Expired(s) => s \in DOMAIN user_id_by_session_id'

C25_ExpiredLogoutFailsAndKeepsEntry == [][C25_Step]_vars

(* C26: with a positive duration and a clock that never goes back, a      *)
(* stored session whose lookup returns None is looked up as None after     *)
(* every call and every passage of time, and no call changes the           *)
(* created_at of a session that stays stored.                              *)
C26_Step ==
    \A s \in DOMAIN user_id_by_session_id :
        /\ s \in DOMAIN user_id_by_session_id'
              => user_id_by_session_id'[s].created_at
                     = user_id_by_session_id[s].created_at
        /\ (session_duration > 0 /\ Lookup(s).ret = None)
              => SessionExpAuth_user_id_for_session_id(
                     user_id_by_session_id', session_duration', s, now').ret
                         = None

C26_ExpiryIsPermanent == [][C26_Step]_vars

\* the lookup of an expired session returned None while another session
\* is stored and still valid
C26_Witness ==
    /\ last.op = "user_id_for_session_id"
    /\ last.ret = None
    /\ Expired(last.session_id)
    /\ \E s \in DOMAIN user_id_by_session_id :
          /\ ~Expired(s)
          /\ Lookup(s).ret # None

----------------------------------------------------------------------------
(* Further properties of the Flask app (SpecApp)                           *)

(* C28: PUT /reset_password with all three fields answers 200 exactly when *)
(* some user holds the submitted reset_token, whatever the email field; it *)
(* then sets the password of that user, leaves the hashed_password of      *)
(* every other user as it was, and answers with the submitted email.       *)
C28_TokenHolderChanges ==
    /\ \A form \in ResetForms, salt \in Salts :
          "new_password" \in DOMAIN form =>
              LET r == put_reset_password(users, form, salt)
                  holders == filter_by(users,
                                       [reset_token |-> form.reset_token])
              IN  IF holders = {}
                  THEN r.status = 403 /\ r.users = users
                  ELSE /\ r.status = 200
                       /\ r.body = form.email
                       /\ \E b \in holders :
                             /\ r.users[b].hashed_password
                                    = _hash_password(form.new_password, salt)
                             /\ \A i \in 1..Len(users) :
                                   i # b => r.users[i].hashed_password
                                                = users[i].hashed_password
    /\ (last.op = "PUT /reset_password" /\ last.status = 200)
          => last.body = last.email

\* a request with the first user's email and the second user's token was
\* answered 200 with the first user's email
C28_Witness ==
    /\ last.op = "PUT /reset_password"
    /\ last.status = 200
    /\ Len(users) = 2
    /\ last.email = users[1].email
    /\ last.body = users[1].email
    /\ last.user_id = 2

----------------------------------------------------------------------------
(* Properties of concurrent registration (SpecRace)                        *)

(* C29: no two users have the same email, and when two workers have both   *)
(* finished a register_user call for the same email, each call returned a  *)
(* user or raised ValueError, and at most one of them returned a user.     *)
C29_InterleavedRegistrationIsSafe ==
    /\ \A i, j \in 1..Len(users) : i # j => users[i].email # users[j].email
    /\ \A v, w \in Workers :
          (/\ v # w
           /\ calls[v].pc = "done"
           /\ calls[w].pc = "done"
           /\ calls[v].email = calls[w].email)
              => /\ calls[v].exc \in {None, ValueError}
                 /\ calls[w].exc \in {None, ValueError}
                 /\ ~(calls[v].exc = None /\ calls[w].exc = None)

====
